---- MODULE Spec2Model ----
(***************************************************************************)
(* Model of the negotiation relay AIRelayServer (server/relay_server_ai.py).*)
(*                                                                         *)
(* The relay is one asyncio process.  Every websocket connection has its   *)
(* own handle_client coroutine; a coroutine runs without interruption from *)
(* one await that can suspend to the next, so every action below is the    *)
(* code between two such awaits (a channel send, the grace sleep).  The    *)
(* oracle calls are synchronous calls and suspend nothing.                 *)
(*                                                                         *)
(* JSON objects are functions from the keys they carry to values, so a     *)
(* missing key is a key outside DOMAIN and dict.get is the operator Get.   *)
(* Timestamps are left out of every event: no decision reads them.         *)
(***************************************************************************)
EXTENDS Integers, Sequences, FiniteSets, TLC

(***************************************************************************)
(* Program constants                                                       *)
(***************************************************************************)
min_turns == 6
max_turns == 20
\* `confidence > 0.7`, in hundredths
ConfidenceThreshold == 70
\* the history entries shown to the judgment oracle
RecentWindow == 6

(***************************************************************************)
(* Bounds of the model                                                     *)
(***************************************************************************)
\* websocket connections the relay accepts in one run
MaxConns == 3
\* events of one run that depart from the plain run of two agents: a frame
\* out of protocol, a `message` received after an end_session has begun, a
\* frame taken while a send is suspended, a turn with an empty text (see
\* Spend, Message and Departs)
MaxDeviations == 1
\* events an agent on its own is sent
MaxInbound == 3

Conns == 1 .. MaxConns
\* Python's None, as a connection and as a string
NoConn == 0
None == "None"

Roles == {"company", "investor"}
\* the display name a connection registers with
NameOf(c) == CASE c = 1 -> "Acme" [] c = 2 -> "Fund" [] OTHER -> "Zed"

VARIABLES
    \* AIRelayServer attributes
    clients, company_agent, investor_agent, company_name, investor_name,
    session_active, turn_count, conversation_history, client,
    \* the websocket layer: channel state, handler position and its locals
    sock, pc, frame,
    \* what the relay sent in the last step that changed anything, in order:
    \* [to |-> connection, ev |-> event]
    out,
    \* how many events of each type the relay has sent so far
    sentCount,
    \* what the run has consumed of the bounds, and counts of what happened
    deviations, late, msgEvents, sessions, ends, disconnects, judgedAt,
    \* the oracle's answer when that step consulted it for a judgment
    answer,
    \* BaseAgentAI attributes, per agent (an agent is named by its connection)
    is_active, agent_turn_count, agent_history,
    \* the agent's position in connect / listen / handle_message
    agent_pc,
    \* events in flight: relay to agent, agent to relay
    toAgent, toRelay,
    \* the types of the events each agent has handled, in order
    handled,
    \* how each agent's last generate_content call ended
    generation

relayVars == <<clients, company_agent, investor_agent, company_name, investor_name,
               session_active, turn_count, conversation_history, client>>
netVars == <<sock, pc, frame, out, sentCount>>
countVars == <<deviations, late, msgEvents, sessions, ends, disconnects>>
judgeVars == <<judgedAt, answer>>
agentVars == <<is_active, agent_turn_count, agent_history, agent_pc,
               toAgent, toRelay, handled, generation>>
vars == <<relayVars, netVars, countVars, judgeVars, agentVars>>

\* dict.get(key, default)
Get(d, k, default) == IF k \in DOMAIN d THEN d[k] ELSE default

NoFrame == [type |-> "none"]
NoAnswer == [asked |-> FALSE]
EventTypes == {"session_start", "message", "conclusion", "end"}

(***************************************************************************)
(* AIRelayServer.__init__                                                  *)
(***************************************************************************)
Init ==
    /\ clients = {}
    /\ company_agent = NoConn
    /\ investor_agent = NoConn
    /\ company_name = None
    /\ investor_name = None
    /\ session_active = FALSE
    /\ turn_count = 0
    /\ conversation_history = <<>>
    \* genai.Client when GEMINI_API_KEY is set, None otherwise
    /\ client \in BOOLEAN
    /\ sock = [c \in Conns |-> "none"]
    /\ pc = [c \in Conns |-> "none"]
    /\ frame = [c \in Conns |-> NoFrame]
    /\ out = <<>>
    /\ sentCount = [t \in EventTypes |-> 0]
    /\ deviations = 0
    /\ late = 0
    \* `message` events received, sessions started, end_session calls,
    \* handle_disconnect calls
    /\ msgEvents = 0
    /\ sessions = 0
    /\ ends = 0
    /\ disconnects = 0
    \* the turn counts at which a transcript was submitted for judgment
    /\ judgedAt = {}
    /\ answer = NoAnswer
    \* BaseAgentAI.__init__, and nothing in flight
    /\ is_active = [a \in Conns |-> TRUE]
    /\ agent_turn_count = [a \in Conns |-> 0]
    /\ agent_history = [a \in Conns |-> <<>>]
    /\ agent_pc = [a \in Conns |-> "init"]
    /\ toAgent = [a \in Conns |-> <<>>]
    /\ toRelay = [a \in Conns |-> <<>>]
    /\ handled = [a \in Conns |-> <<>>]
    /\ generation = [a \in Conns |-> "none"]

(***************************************************************************)
(* The channel layer                                                       *)
(***************************************************************************)
\* websocket.send on an open channel delivers; on a closed one it raises
CanSend(to) == sock[to] = "open"
Delivery(to, ev) == <<[to |-> to, ev |-> ev]>>
\* try: await ws.send(msg) / except: pass
TrySend(to, ev) == IF CanSend(to) THEN Delivery(to, ev) ELSE <<>>

\* the step does not consult the judgment oracle
NoJudgment == judgedAt' = judgedAt /\ answer' = NoAnswer

\* the step sends these deliveries, in this order
Emit(msgs) ==
    /\ out' = msgs
    /\ sentCount' = [t \in EventTypes |->
          sentCount[t] + Cardinality({i \in 1 .. Len(msgs) : msgs[i].ev.type = t})]

\* handle_disconnect, on one role slot
ClearedAny(slot, c) == NoConn
Cleared(slot, c) == IF slot # NoConn /\ slot = c THEN NoConn ELSE slot

\* the handler of c is waiting in `async for message in websocket`; a frame
\* the peer sent before it closed the channel is still handed to the handler
Idle(c) == pc[c] = "idle"

\* handler positions inside a channel send that has not returned yet
SendPcs == {"ss_mid", "fwd", "concl_mid", "end_mid", "end_fin"}
\* the handler of c runs while a send of another handler is suspended
Overlap(c) == \E d \in Conns \ {c} : pc[d] \in SendPcs

\* A step of the handler of c that departs from the protocol n times more.
Spend(c, n) ==
    LET cost == n + (IF Overlap(c) THEN 1 ELSE 0) IN
    /\ deviations + cost <= MaxDeviations
    /\ deviations' = deviations + cost

\* A connection is accepted and handle_client starts for it.  Connections
\* beyond the two agents' come only in runs that may still depart from the
\* protocol.
Connect(c) ==
    /\ sock[c] = "none"
    /\ \A d \in Conns : d < c => sock[d] # "none"
    /\ c > 2 => deviations < MaxDeviations
    /\ sock' = [sock EXCEPT ![c] = "open"]
    /\ pc' = [pc EXCEPT ![c] = "idle"]
    /\ Emit(<<>>)
    /\ NoJudgment
    /\ UNCHANGED <<relayVars, frame, countVars>>

\* c registered and every role it registered for has been taken over since
Stale(c) == c \in clients /\ c \notin {company_agent, investor_agent}

\* The peer of c closes the channel.  An agent of the protocol closes only at
\* the end; a connection that was replaced is expected to go away.
\* The handler has not noticed yet.
PeerClose(c) ==
    /\ sock[c] = "open"
    /\ LET cost == IF Stale(c) THEN 0 ELSE 1 IN
          /\ deviations + cost <= MaxDeviations
          /\ deviations' = deviations + cost
    /\ sock' = [sock EXCEPT ![c] = "closed"]
    /\ Emit(<<>>)
    /\ NoJudgment
    /\ UNCHANGED <<relayVars, pc, frame, late, msgEvents, sessions, ends, disconnects>>

(***************************************************************************)
(* The judgment oracle and the parsing of its answer                       *)
(*                                                                         *)
(* An answer is text, modelled as a sequence of tokens: a ```json fence,   *)
(* a ``` fence, prose, or one JSON value.  generate_content may also raise.*)
(***************************************************************************)
Tok(k) == [k |-> k]
JsonTok(v) == [k |-> "json", v |-> v]
FenceJson == Tok("fence_json")
Fence == Tok("fence")
Prose == Tok("prose")
\* both fences contain the substring ```
FenceKinds == {"fence_json", "fence"}

Empty == [k \in {} |-> TRUE]
Merge(f, g) == [k \in DOMAIN f \cup DOMAIN g |-> IF k \in DOMAIN f THEN f[k] ELSE g[k]]
Num(v) == [num |-> TRUE, val |-> v]
NotNum == [num |-> FALSE, val |-> 0]

Statuses == {"DEAL_ACCEPTED", "DEAL_DECLINED", "IMPASSE", "ONGOING"}
Confidences == {[confidence |-> Num(v)] : v \in {50, 70, 90}}
                   \cup {[confidence |-> NotNum], Empty}
\* The JSON objects the oracle answers with.  Every should_end (true, false,
\* missing) with every confidence (below, at and above the threshold, no
\* number, missing), and for an answer that passes the gate every status
\* (also missing) and a missing reason.
Judgments ==
    { Merge(Merge(a, d), [status |-> "DEAL_ACCEPTED", reason |-> "because"]) :
        a \in {[should_end |-> TRUE], [should_end |-> FALSE], Empty},
        d \in Confidences }
    \cup { [should_end |-> TRUE, confidence |-> Num(90), status |-> s,
            reason |-> "because"] : s \in Statuses }
    \cup { [should_end |-> FALSE, confidence |-> Num(90), status |-> "ONGOING",
            reason |-> "because"],
           [should_end |-> TRUE, confidence |-> Num(90), reason |-> "because"],
           [should_end |-> TRUE, confidence |-> Num(90)] }
Obj(j) == [kind |-> "object", obj |-> j]
Arr == [kind |-> "array"]

Accepting == [should_end |-> TRUE, status |-> "DEAL_ACCEPTED",
              confidence |-> Num(90), reason |-> "because"]
\* the ways the answer text can wrap (or spoil) a JSON value
Wrappings(v) ==
    { <<FenceJson, JsonTok(v), Fence>>,
      <<Prose, FenceJson, JsonTok(v), Fence, Prose>>,
      <<Fence, JsonTok(v), Fence>>,
      <<FenceJson, JsonTok(v)>>,
      <<JsonTok(v), Prose>>,
      <<FenceJson, Prose, Fence, JsonTok(v)>>,
      <<Fence, Fence, JsonTok(v)>>,
      <<Fence, JsonTok(v), Fence, FenceJson, Prose>>,
      <<Fence, Prose, FenceJson, JsonTok(v), Fence>>,
      <<Prose>>,
      <<>> }
OracleTexts ==
    { <<JsonTok(Obj(j))>> : j \in Judgments } \cup Wrappings(Obj(Accepting))
        \cup {<<JsonTok(Arr)>>}
OracleOutcomes ==
    {[raises |-> TRUE]} \cup {[raises |-> FALSE, text |-> t] : t \in OracleTexts}

HasTok(text, K) == \E i \in 1 .. Len(text) : text[i].k \in K
FirstIdx(text, K) ==
    CHOOSE i \in 1 .. Len(text) :
        text[i].k \in K /\ \A j \in 1 .. (i - 1) : text[j].k \notin K
\* text.split(sep)[1]
AfterFirst(text, K) == SubSeq(text, FirstIdx(text, K) + 1, Len(text))
\* text.split("```")[0]
UntilFence(text) ==
    IF HasTok(text, FenceKinds)
    THEN SubSeq(text, 1, FirstIdx(text, FenceKinds) - 1)
    ELSE text
\* "Remove markdown if present"
StripMarkdown(text) ==
    IF HasTok(text, {"fence_json"})
    THEN UntilFence(AfterFirst(text, {"fence_json"}))
    ELSE IF HasTok(text, {"fence"})
         THEN UntilFence(AfterFirst(text, {"fence"}))
         ELSE text
\* json.loads: exactly one JSON value, or an exception
JsonLoadsLenient(text) ==
    IF Len(text) >= 1 /\ text[1].k = "json"
    THEN [ok |-> TRUE, v |-> text[1].v]
    ELSE [ok |-> FALSE]
JsonLoads(text) ==
    IF Len(text) = 1 /\ text[1].k = "json"
    THEN [ok |-> TRUE, v |-> text[1].v]
    ELSE [ok |-> FALSE]

Continue == [end |-> FALSE]
\* `analysis.get("should_end") and analysis.get("confidence", 0) > 0.7`
Gate(a, conf) ==
    Get(a, "should_end", FALSE) /\ conf.val > ConfidenceThreshold

\* _ai_analyze_termination from the oracle call on: the decision, or None
Analyze(o) ==
    IF o.raises THEN Continue
    ELSE LET parsed == JsonLoads(StripMarkdown(o.text)) IN
         IF ~parsed.ok THEN Continue
         ELSE IF parsed.v.kind # "object" THEN Continue
         ELSE LET a == parsed.v.obj
                  conf == Get(a, "confidence", Num(0))
              IN \* a confidence that is no number fails the :.2f format
                 IF ~conf.num THEN Continue
                 ELSE IF Gate(a, conf) THEN [end |-> TRUE, analysis |-> a]
                 ELSE Continue

\* f"Reached maximum {self.max_turns} turns. Parties need more time."
MaxTurnsReason == "Reached maximum 20 turns. Parties need more time."
DefaultReason == "AI determined negotiation complete"

(***************************************************************************)
(* end_session                                                             *)
(***************************************************************************)
\* ai_generate_conclusion: the oracle's text, or _simple_conclusion
ConclusionOracle == IF client THEN {"ok", "raises"} ELSE {"absent"}
ConclusionTextOrNone(g) == IF g = "ok" THEN "ai" ELSE None
ConclusionText(g) == IF g = "ok" THEN "ai" ELSE "simple"

\* end_session up to its first suspension: a send on a closed channel raises
\* at once, `except: pass`, and the handler goes on without suspending
EndSessionBegin(c, status, reason, tc) ==
    \E g \in ConclusionOracle :
      LET msg == [type |-> "conclusion", text |-> ConclusionText(g),
                  status |-> status, reason |-> reason, total_turns |-> tc]
      IN /\ ends' = ends + 1
         /\ UNCHANGED session_active
         /\ IF company_agent # NoConn /\ CanSend(company_agent)
            THEN /\ Emit(Delivery(company_agent, msg))
                 /\ pc' = [pc EXCEPT ![c] = "concl_mid"]
                 /\ frame' = [frame EXCEPT ![c] = msg]
            ELSE /\ Emit(IF investor_agent # NoConn
                         THEN TrySend(investor_agent, msg)
                         ELSE <<>>)
                 /\ pc' = [pc EXCEPT ![c] = "grace"]
                 /\ frame' = [frame EXCEPT ![c] = [type |-> "sleep", reason |-> reason]]

\* the handler returns to `async for`
Return(c) ==
    /\ pc' = [pc EXCEPT ![c] = "idle"]
    /\ frame' = [frame EXCEPT ![c] = NoFrame]

NoEnd(c) ==
    /\ Return(c)
    /\ Emit(<<>>)
    /\ UNCHANGED <<session_active, ends>>

(***************************************************************************)
(* ai_check_termination, run by the handler of c at turn count tc          *)
(***************************************************************************)
\* _ai_analyze_termination reaches the oracle call
OracleConsultedAlways(tc) == client
OracleConsulted(tc) == client /\ tc % 2 = 0

\* self.conversation_history[-6:] if len(...) > 6 else self.conversation_history
Recent(history) ==
    IF Len(history) > RecentWindow
    THEN SubSeq(history, Len(history) - RecentWindow + 1, Len(history))
    ELSE history

\* the check, for a minimum of lo turns and a ceiling of hi turns
CheckTermination(c, tc, lo, hi) ==
    IF tc < lo
    THEN NoEnd(c) /\ NoJudgment
    ELSE IF tc >= hi
    THEN EndSessionBegin(c, "MAX_TURNS_REACHED", MaxTurnsReason, tc) /\ NoJudgment
    ELSE IF client /\ tc >= lo /\ OracleConsulted(tc)
    THEN \E o \in OracleOutcomes :
           /\ judgedAt' = judgedAt \cup {tc}
           /\ answer' = [asked |-> TRUE, o |-> o,
                         recent |-> Recent(conversation_history')]
           /\ LET should_end == Analyze(o) IN
              IF should_end.end
              THEN EndSessionBegin(c, Get(should_end.analysis, "status", "ONGOING"),
                                   Get(should_end.analysis, "reason", DefaultReason), tc)
              ELSE NoEnd(c)
    ELSE NoEnd(c) /\ NoJudgment

\* the check with other limits: a minimum two turns lower, a ceiling one turn higher
ai_check_termination_early(c, tc) == CheckTermination(c, tc, min_turns - 2, max_turns)
ai_check_termination_late(c, tc) == CheckTermination(c, tc, min_turns, max_turns + 1)
ai_check_termination(c, tc) == CheckTermination(c, tc, min_turns, max_turns)

(***************************************************************************)
(* handle_client: an exception in the handler of c                         *)
(***************************************************************************)
\* handle_disconnect(c) on the given slots; handle_client then returns and the
\* server closes the channel of c
Disconnected(c, cl, ca, ia) ==
    /\ clients' = cl \ {c}
    /\ company_agent' = Cleared(ca, c)
    /\ investor_agent' = Cleared(ia, c)
    /\ pc' = [pc EXCEPT ![c] = "done"]
    /\ frame' = [frame EXCEPT ![c] = NoFrame]
    /\ sock' = [sock EXCEPT ![c] = "closed"]
    /\ disconnects' = disconnects + 1

\* handle_disconnect is not called
SlotsUnchanged == UNCHANGED <<clients, company_agent, investor_agent, disconnects>>

(***************************************************************************)
(* handle_registration and start_session                                   *)
(***************************************************************************)
\* the event start_session sends
SessionStart(cn, iname) ==
    [type |-> "session_start", company |-> cn, investor |-> iname]

\* `if self.company_agent and self.investor_agent and not self.session_active`
StartsWhenFilled(ca, ia) == ca # NoConn /\ ia # NoConn
Starts(ca, ia) == ca # NoConn /\ ia # NoConn /\ ~session_active

handle_registration(c, role, name) ==
    LET ca == IF role = "company" THEN c ELSE company_agent
        ia == IF role = "investor" THEN c ELSE investor_agent
        cn == IF role = "company" THEN name ELSE company_name
        iname == IF role = "investor" THEN name ELSE investor_name
        cl == clients \cup {c}
    IN /\ company_name' = cn
       /\ investor_name' = iname
       /\ UNCHANGED <<turn_count, conversation_history, client>>
       /\ IF Starts(ca, ia)
          THEN \* start_session, up to the suspension of its first send
               /\ session_active' = TRUE
               /\ sessions' = sessions + 1
               /\ IF CanSend(ca)
                  THEN /\ Emit(Delivery(ca, SessionStart(cn, iname)))
                       /\ pc' = [pc EXCEPT ![c] = "ss_mid"]
                       /\ frame' = [frame EXCEPT ![c] = SessionStart(cn, iname)]
                       /\ clients' = cl
                       /\ company_agent' = ca
                       /\ investor_agent' = ia
                       /\ UNCHANGED <<sock, disconnects>>
                  ELSE /\ Disconnected(c, cl, ca, ia)
                       /\ Emit(<<>>)
          ELSE /\ clients' = cl
               /\ company_agent' = ca
               /\ investor_agent' = ia
               /\ Emit(<<>>)
               /\ UNCHANGED <<session_active, sessions, sock, pc, frame, disconnects>>

SlotOf(role) == IF role = "company" THEN company_agent ELSE investor_agent

\* the roles a `register` event names: the two of the protocol, and any other
\* value (or none), which fills no slot
RegisterRoles == Roles \cup {"observer"}

\* a first registration, for a role nobody holds
FirstRegistration(c, role) ==
    role \in Roles /\ c \notin clients /\ SlotOf(role) = NoConn

\* A `register` event arrives on connection c.
Register(c, role) ==
    /\ Idle(c)
    /\ Spend(c, IF FirstRegistration(c, role) THEN 0 ELSE 1)
    /\ handle_registration(c, role, NameOf(c))
    /\ NoJudgment
    /\ UNCHANGED <<late, msgEvents, ends>>

\* start_session resumes: `await self.investor_agent.send(session_msg)`
ResumeStartSession(c) ==
    /\ pc[c] = "ss_mid"
    /\ UNCHANGED deviations
    /\ IF investor_agent # NoConn /\ CanSend(investor_agent)
       THEN /\ Emit(Delivery(investor_agent, frame[c]))
            /\ Return(c)
            /\ SlotsUnchanged
            /\ UNCHANGED sock
       ELSE \* AttributeError on None, or ConnectionClosed
            /\ Disconnected(c, clients, company_agent, investor_agent)
            /\ Emit(<<>>)
    /\ NoJudgment
    /\ UNCHANGED <<company_name, investor_name, session_active, turn_count,
                   conversation_history, client,
                   late, msgEvents, sessions, ends>>

(***************************************************************************)
(* handle_negotiation_message                                              *)
(***************************************************************************)
\* the entry appended to conversation_history
Turn(data) ==
    [sender |-> Get(data, "sender", None), role |-> Get(data, "role", None),
     text |-> Get(data, "text", None), turn |-> Get(data, "turn", 0)]

\* the slot the message is relayed to, NoConn when it is relayed to nobody
RelayTargetSame(data) ==
    LET role == Get(data, "role", None) IN
    IF role = "company" /\ company_agent # NoConn THEN company_agent
    ELSE IF role = "investor" /\ investor_agent # NoConn THEN investor_agent
    ELSE NoConn
RelayTarget(data) ==
    LET role == Get(data, "role", None) IN
    IF role = "company" /\ investor_agent # NoConn THEN investor_agent
    ELSE IF role = "investor" /\ company_agent # NoConn THEN company_agent
    ELSE NoConn

\* self.conversation_history.append({...})
RecordedLatest(history, turn) == <<turn>>
Recorded(history, turn) == Append(history, turn)

\* turn_count after one more message
CountedTwice(tc) == tc + 2
Counted(tc) == tc + 1

handle_negotiation_message(c, data) ==
    LET to == RelayTarget(data)
        tc == Counted(turn_count)
    IN /\ conversation_history' = Recorded(conversation_history, Turn(data))
       /\ turn_count' = tc
       /\ UNCHANGED <<company_name, investor_name, client>>
       /\ IF to = NoConn
          THEN \* nothing is sent: the termination check follows at once
               /\ ai_check_termination(c, tc)
               /\ SlotsUnchanged
               /\ UNCHANGED sock
          ELSE IF CanSend(to)
          THEN /\ Emit(Delivery(to, data))
               /\ pc' = [pc EXCEPT ![c] = "fwd"]
               /\ SlotsUnchanged
               /\ NoJudgment
               /\ UNCHANGED <<sock, frame, session_active, ends>>
          ELSE /\ Disconnected(c, clients, company_agent, investor_agent)
               /\ Emit(<<>>)
               /\ NoJudgment
               /\ UNCHANGED <<session_active, ends>>

\* the `message` events a client on connection c sends
Payload(role, name) ==
    [type |-> "message", text |-> "offer", sender |-> name, role |-> role, turn |-> 1]
Payloads(c) ==
    { Payload(role, NameOf(c)) : role \in Roles } \cup {[type |-> "message", text |-> "offer"]}

\* the role whose turn it is when roles alternate, company first
TurnOf ==
    IF conversation_history = <<>> THEN "company"
    ELSE LET last == conversation_history[Len(conversation_history)].role IN
         IF last = "company" THEN "investor" ELSE "company"
\* the message an agent sends when it is its turn in a started session
InProtocol(c, data) ==
    /\ sessions > 0
    /\ "role" \in DOMAIN data
    /\ data.role = TurnOf
    /\ SlotOf(data.role) = c

\* A `message` event arrives on connection c.
Message(c, data) ==
    /\ Idle(c)
    /\ msgEvents < max_turns + MaxDeviations
    /\ Spend(c, (IF InProtocol(c, data) THEN 0 ELSE 1) + (IF ends > 0 THEN 1 ELSE 0))
    /\ late' = IF ends > 0 THEN late + 1 ELSE late
    /\ msgEvents' = msgEvents + 1
    /\ UNCHANGED sessions
    /\ handle_negotiation_message(c, data)

\* handle_negotiation_message resumes after the relaying send
ResumeCheck(c) ==
    /\ pc[c] = "fwd"
    /\ UNCHANGED deviations
    /\ UNCHANGED <<company_name, investor_name, turn_count, conversation_history,
                   client, sock, late, msgEvents, sessions>>
    /\ ai_check_termination(c, turn_count)
    /\ SlotsUnchanged

(***************************************************************************)
(* end_session, after its first suspension                                 *)
(***************************************************************************)
EndEventDefault(reason) == [type |-> "end", reason |-> DefaultReason]
EndEvent(reason) == [type |-> "end", reason |-> reason]

\* the locals end_session still reads once the conclusion is sent
Sleeping(msg) == [type |-> "sleep", reason |-> msg.reason]

\* the second conclusion send; the grace sleep follows
ResumeConclusion(c) ==
    /\ pc[c] = "concl_mid"
    /\ UNCHANGED deviations
    /\ Emit(IF investor_agent # NoConn THEN TrySend(investor_agent, frame[c]) ELSE <<>>)
    /\ pc' = [pc EXCEPT ![c] = "grace"]
    /\ frame' = [frame EXCEPT ![c] = Sleeping(frame[c])]
    /\ NoJudgment
    /\ UNCHANGED <<relayVars, sock, late, msgEvents, sessions, ends, disconnects>>

\* what end_session leaves in session_active
StillActive == TRUE
Ended == FALSE

\* asyncio.sleep(2) is over: the end sends, up to the next suspension; a send
\* that raises does not suspend
ResumeGrace(c) ==
    /\ pc[c] = "grace"
    /\ UNCHANGED deviations
    /\ IF company_agent # NoConn /\ CanSend(company_agent)
       THEN /\ Emit(Delivery(company_agent, EndEvent(frame[c].reason)))
            /\ pc' = [pc EXCEPT ![c] = "end_mid"]
            /\ UNCHANGED <<frame, session_active>>
       ELSE IF investor_agent # NoConn /\ CanSend(investor_agent)
       THEN /\ Emit(Delivery(investor_agent, EndEvent(frame[c].reason)))
            /\ pc' = [pc EXCEPT ![c] = "end_fin"]
            /\ UNCHANGED <<frame, session_active>>
       ELSE /\ session_active' = Ended
            /\ Return(c)
            /\ Emit(<<>>)
    /\ SlotsUnchanged
    /\ NoJudgment
    /\ UNCHANGED <<company_name, investor_name, turn_count, conversation_history,
                   client, sock, late, msgEvents, sessions, ends>>

\* the second end send
ResumeEnd(c) ==
    /\ pc[c] = "end_mid"
    /\ UNCHANGED deviations
    /\ IF investor_agent # NoConn /\ CanSend(investor_agent)
       THEN /\ Emit(Delivery(investor_agent, EndEvent(frame[c].reason)))
            /\ pc' = [pc EXCEPT ![c] = "end_fin"]
            /\ UNCHANGED <<frame, session_active>>
       ELSE /\ session_active' = Ended
            /\ Return(c)
            /\ Emit(<<>>)
    /\ SlotsUnchanged
    /\ NoJudgment
    /\ UNCHANGED <<company_name, investor_name, turn_count, conversation_history,
                   client, sock, late, msgEvents, sessions, ends>>

\* `self.session_active = False`, and the handler returns
ResumeEndFin(c) ==
    /\ pc[c] = "end_fin"
    /\ UNCHANGED deviations
    /\ session_active' = Ended
    /\ Return(c)
    /\ Emit(<<>>)
    /\ SlotsUnchanged
    /\ NoJudgment
    /\ UNCHANGED <<company_name, investor_name, turn_count, conversation_history,
                   client, sock, late, msgEvents, sessions, ends>>

(***************************************************************************)
(* process_message: the other events, and the end of a handler             *)
(***************************************************************************)
\* An `error` event: printed, nothing else.
ErrorEvent(c) ==
    /\ Idle(c)
    /\ UNCHANGED vars

\* An event of another type (or none): no branch of process_message takes it.
UnknownEvent(c) ==
    /\ Idle(c)
    /\ UNCHANGED vars

\* A frame that is no JSON object: json.loads or data.get raises.
BadFrame(c) ==
    /\ Idle(c)
    /\ Spend(c, 1)
    /\ Disconnected(c, clients, company_agent, investor_agent)
    /\ Emit(<<>>)
    /\ NoJudgment
    /\ UNCHANGED <<company_name, investor_name, session_active, turn_count,
                   conversation_history, client,
                   late, msgEvents, sessions, ends>>

\* The handler finds its channel closed.  A normal closure ends `async for`
\* without an exception; an abnormal one raises ConnectionClosed.
HandlerExit(c, how) ==
    /\ pc[c] = "idle"
    /\ sock[c] = "closed"
    /\ Spend(c, 0)
    /\ IF how = "error"
       THEN Disconnected(c, clients, company_agent, investor_agent)
       ELSE /\ pc' = [pc EXCEPT ![c] = "done"]
            /\ SlotsUnchanged
            /\ UNCHANGED <<sock, frame>>
    /\ Emit(<<>>)
    /\ NoJudgment
    /\ UNCHANGED <<company_name, investor_name, session_active, turn_count,
                   conversation_history, client,
                   late, msgEvents, sessions, ends>>

\* The relay alone: its clients send whatever the protocol allows and more;
\* the agents of this module take no part.
Next ==
    \/ \E c \in Conns : Connect(c) /\ UNCHANGED agentVars
    \/ \E c \in Conns : PeerClose(c) /\ UNCHANGED agentVars
    \/ \E c \in Conns, role \in RegisterRoles : Register(c, role) /\ UNCHANGED agentVars
    \/ \E c \in Conns : ResumeStartSession(c) /\ UNCHANGED agentVars
    \/ \E c \in Conns : \E data \in Payloads(c) : Message(c, data) /\ UNCHANGED agentVars
    \/ \E c \in Conns : ResumeCheck(c) /\ UNCHANGED agentVars
    \/ \E c \in Conns : ResumeConclusion(c) /\ UNCHANGED agentVars
    \/ \E c \in Conns : ResumeGrace(c) /\ UNCHANGED agentVars
    \/ \E c \in Conns : ResumeEnd(c) /\ UNCHANGED agentVars
    \/ \E c \in Conns : ResumeEndFin(c) /\ UNCHANGED agentVars
    \/ \E c \in Conns : ErrorEvent(c) /\ UNCHANGED agentVars
    \/ \E c \in Conns : UnknownEvent(c) /\ UNCHANGED agentVars
    \/ \E c \in Conns : BadFrame(c) /\ UNCHANGED agentVars
    \/ \E c \in Conns, how \in {"ok", "error"} : HandlerExit(c, how) /\ UNCHANGED agentVars

Spec == Init /\ [][Next]_vars

(***************************************************************************)
(* What a step did, read off two successive states                         *)
(***************************************************************************)
\* a handler relayed a message and is suspended in that send
Forwarded == \E c \in Conns : pc[c] # "fwd" /\ pc'[c] = "fwd"
\* a handler ended with an exception: handle_client caught it and called
\* handle_disconnect
Raised == disconnects' = disconnects + 1
\* ai_check_termination ran: after the relaying send, or at once when the
\* message was relayed to nobody
CheckRan ==
    \/ \E c \in Conns : pc[c] = "fwd" /\ pc'[c] # "fwd"
    \/ msgEvents' # msgEvents /\ ~Forwarded /\ ~Raised
\* end_session was called
EndCalled == ends' = ends + 1
\* the events of one type among the deliveries
OfType(msgs, t) == { i \in 1 .. Len(msgs) : msgs[i].ev.type = t }
Closing(msgs) == OfType(msgs, "conclusion") \cup OfType(msgs, "end")

(***************************************************************************)
(* C1  Turn monotonicity: after the i-th `message` event received, from    *)
(* any connection in any order, turn_count is i, and the length of         *)
(* conversation_history equals turn_count in every reachable state.        *)
(***************************************************************************)
TurnMonotonicity ==
    /\ turn_count = msgEvents
    /\ Len(conversation_history) = turn_count

\* messages were counted up to the ceiling and beyond: the last one came
\* after end_session had begun
TurnMonotonicityWitness ==
    /\ turn_count > max_turns
    /\ late > 0
    /\ conversation_history[max_turns + 1].role = "company"

(***************************************************************************)
(* C2  Max-turn ceiling: a termination check that runs with                *)
(* turn_count >= max_turns calls end_session with MAX_TURNS_REACHED and    *)
(* does not consult the judgment oracle, with or without an oracle client. *)
(***************************************************************************)
MaxTurnCeiling ==
    [][ CheckRan /\ turn_count' >= max_turns
          => /\ EndCalled
             /\ judgedAt' = judgedAt
             /\ answer' = NoAnswer
             /\ \A i \in 1 .. Len(out') :
                   /\ out'[i].ev.type = "conclusion"
                   /\ out'[i].ev.status = "MAX_TURNS_REACHED"
                   /\ out'[i].ev.total_turns = turn_count' ]_vars

\* the ceiling conclusion was sent by a relay that has no oracle client
MaxTurnCeilingWitness ==
    /\ ~client
    /\ turn_count = max_turns
    /\ \E i \in 1 .. Len(out) :
          /\ out[i].ev.type = "conclusion"
          /\ out[i].ev.status = "MAX_TURNS_REACHED"

(***************************************************************************)
(* C3  Minimum-turn guard: while turn_count < min_turns no step, so no     *)
(* termination check, ends the session, sends `conclusion` or `end`, or    *)
(* consults the judgment oracle.                                           *)
(***************************************************************************)
MinimumTurnGuard ==
    [][ turn_count' < min_turns
          => /\ session_active => session_active'
             /\ ~EndCalled
             /\ Closing(out') = {}
             /\ judgedAt' = {}
             /\ answer' = NoAnswer ]_vars

\* a check has run in an active session one turn below the minimum
MinimumTurnGuardWitness ==
    /\ turn_count = min_turns - 1
    /\ session_active
    /\ client
    /\ \A c \in Conns : pc[c] \in {"none", "idle"}

(***************************************************************************)
(* The oracle's answer, as the claims speak of it                          *)
(***************************************************************************)
\* the answer is one JSON object and nothing else
IsPlain(a) ==
    /\ a.asked
    /\ ~a.o.raises
    /\ Len(a.o.text) = 1
    /\ a.o.text[1].k = "json"
    /\ a.o.text[1].v.kind = "object"
JudgmentOf(a) == a.o.text[1].v.obj
HasConfidence(j) == "confidence" \in DOMAIN j /\ j.confidence.num

\* a JSON object whose confidence, when it has one, is a number
ObjectToken(x) ==
    /\ x.k = "json"
    /\ x.v.kind = "object"
    /\ "confidence" \in DOMAIN x.v.obj => x.v.obj.confidence.num
\* a judgment object alone in a text without fences; in a text with fences,
\* a judgment object alone between the first ```json fence (the first fence
\* when there is no ```json fence) and the next fence or the end of the text
WellFormedText(t) ==
    LET opener == IF \E i \in 1 .. Len(t) : t[i].k = "fence_json"
                  THEN {"fence_json"} ELSE FenceKinds
    IN IF \A i \in 1 .. Len(t) : t[i].k \notin FenceKinds
       THEN Len(t) = 1 /\ ObjectToken(t[1])
       ELSE \E i \in 1 .. (Len(t) - 1) :
              /\ t[i].k \in opener
              /\ \A k \in 1 .. (i - 1) : t[k].k \notin opener
              /\ ObjectToken(t[i + 1])
              /\ i + 2 <= Len(t) => t[i + 2].k \in FenceKinds
Malformed(o) == o.raises \/ ~WellFormedText(o.text)

(***************************************************************************)
(* C4  Confidence gate: at an eligible turn a judgment with status        *)
(* DEAL_ACCEPTED ends the session when its confidence is 0.9 and does not  *)
(* when it is 0.5 or 0.7: status and confidence alone decide.              *)
(***************************************************************************)
ConfidenceGateByStatus ==
    [][ ( /\ IsPlain(answer')
          /\ HasConfidence(JudgmentOf(answer'))
          /\ "status" \in DOMAIN JudgmentOf(answer')
          /\ JudgmentOf(answer').status = "DEAL_ACCEPTED" )
          => LET j == JudgmentOf(answer') IN
             /\ j.confidence.val = 90 => EndCalled
             /\ j.confidence.val \in {50, 70} => ~EndCalled ]_vars

(***************************************************************************)
(* C5  Status gate: every `conclusion` event the relay sends carries a     *)
(* status among DEAL_ACCEPTED, DEAL_DECLINED, IMPASSE, MAX_TURNS_REACHED.  *)
(***************************************************************************)
StatusGate ==
    \A i \in OfType(out, "conclusion") :
        out[i].ev.status \in {"DEAL_ACCEPTED", "DEAL_DECLINED", "IMPASSE",
                              "MAX_TURNS_REACHED"}

(***************************************************************************)
(* C6  Fail-open oracle: when the judgment call raises or answers with     *)
(* text that is no well-formed judgment, end_session is not called,        *)
(* nothing is sent, session_active keeps its value and the handler goes    *)
(* back to receiving; the turn is below max_turns.                         *)
(***************************************************************************)
FailOpen ==
    [][ answer'.asked /\ Malformed(answer'.o)
          => /\ ~EndCalled
             /\ out' = <<>>
             /\ session_active' = session_active
             /\ turn_count' < max_turns
             /\ \A c \in Conns : pc'[c] # pc[c] => pc'[c] = "idle" ]_vars

\* an accepting judgment followed by prose was answered in an active session,
\* which goes on
FailOpenWitness ==
    /\ answer.asked
    /\ ~answer.o.raises
    /\ answer.o.text = <<JsonTok(Obj(Accepting)), Prose>>
    /\ session_active
    /\ \A c \in Conns : pc[c] \in {"none", "idle"}

(***************************************************************************)
(* C7  Idempotent end: within one session `conclusion` and `end` are       *)
(* broadcast at most once, so each of the two connections of a session is  *)
(* sent at most one of each, whenever the inbound messages arrive.         *)
(***************************************************************************)
IdempotentEnd ==
    /\ sentCount["conclusion"] <= 2 * sessions
    /\ sentCount["end"] <= 2 * sessions

(***************************************************************************)
(* C8  No turns after ENDED: once end_session has set session_active back  *)
(* to false, no step appends to conversation_history, increments           *)
(* turn_count or forwards a `message` event.                               *)
(***************************************************************************)
NoTurnsAfterEnded ==
    [][ sessions > 0 /\ ends > 0 /\ ~session_active
          => /\ conversation_history' = conversation_history
             /\ turn_count' = turn_count
             /\ OfType(out', "message") = {} ]_vars

(***************************************************************************)
(* C9  Session reset: a registration that starts a session after an        *)
(* earlier one has ended leaves turn_count = 0 and conversation_history    *)
(* empty.                                                                  *)
(***************************************************************************)
SessionReset ==
    [][ ends > 0 /\ ~session_active /\ session_active'
          => turn_count' = 0 /\ conversation_history' = <<>> ]_vars

(***************************************************************************)
(* C10  Session start: every registration that leaves both role slots      *)
(* filled while no session is active has `session_start` sent to both      *)
(* connections, and nothing else has; the event carries the registered     *)
(* names, and session_active is true once it is sent.                      *)
(***************************************************************************)
SessionStartToBoth ==
    /\ (\A c \in Conns : pc[c] # "ss_mid") => sentCount["session_start"] = 2 * sessions
    /\ \A i \in OfType(out, "session_start") :
          /\ out[i].ev.company = company_name
          /\ out[i].ev.investor = investor_name
          /\ session_active

(***************************************************************************)
(* BaseAgentAI: two agents, the company's on connection 1 and the          *)
(* investor's on connection 2, talking through the relay                   *)
(***************************************************************************)
Agents == {1, 2}
AgentRole(a) == IF a = 1 THEN "company" ELSE "investor"

agentLocals == <<is_active, agent_turn_count, agent_history, agent_pc, handled,
                 generation>>

\* `if self.role == "company"`: the agent that opens on session_start
OpensAny(a) == TRUE
Opens(a) == AgentRole(a) = "company"

\* the events an agent sends
RegisterEvent(a) == [type |-> "register", role |-> AgentRole(a), name |-> NameOf(a)]
MessageEventAsCompany(a, tc, text) ==
    [type |-> "message", text |-> text, sender |-> NameOf(a),
     role |-> "company", turn |-> tc]
MessageEvent(a, tc, text) ==
    [type |-> "message", text |-> text, sender |-> NameOf(a),
     role |-> AgentRole(a), turn |-> tc]
AgentError(a) == [type |-> "error", error |-> "generation failed", sender |-> NameOf(a)]

\* the events among the deliveries that go to connection a, in order
EventsTo(msgs, a) ==
    LET ToA(m) == m.to = a
        sel == SelectSeq(msgs, ToA)
    IN [i \in 1 .. Len(sel) |-> sel[i].ev]
\* what the relay sent in this step reaches the agents' channels
Deliver == toAgent' = [a \in Conns |-> toAgent[a] \o EventsTo(out', a)]

\* connect up to its first suspension, `await websockets.connect(url)`: the
\* relay accepts the connection and starts handle_client for it.  The two
\* agents are separate processes and dial in either order.
AgentDials(a) ==
    /\ agent_pc[a] = "init"
    /\ sock[a] = "none"
    /\ sock' = [sock EXCEPT ![a] = "open"]
    /\ pc' = [pc EXCEPT ![a] = "idle"]
    /\ Emit(<<>>)
    /\ NoJudgment
    /\ UNCHANGED <<relayVars, frame, countVars>>
    /\ UNCHANGED <<agentLocals, toAgent, toRelay>>

\* connect resumes: the `register` event is sent and listen begins; a send
\* that raises is printed and raised again, and the agent is over
AgentRegisters(a) ==
    /\ agent_pc[a] = "init"
    /\ sock[a] # "none"
    /\ IF CanSend(a)
       THEN /\ toRelay' = [toRelay EXCEPT ![a] = Append(@, RegisterEvent(a))]
            /\ agent_pc' = [agent_pc EXCEPT ![a] = "listening"]
       ELSE /\ agent_pc' = [agent_pc EXCEPT ![a] = "done"]
            /\ UNCHANGED toRelay
    /\ Emit(<<>>)
    /\ NoJudgment
    /\ UNCHANGED <<relayVars, sock, pc, frame, countVars, is_active, agent_turn_count,
                   agent_history, toAgent, handled, generation>>

\* connect, one of its two segments
AgentConnect(a) == AgentDials(a) \/ AgentRegisters(a)

\* `if sender == self.name: return`
EchoNever(a, data) == FALSE
Echo(a, data) == Get(data, "sender", None) = NameOf(a)

\* websocket.close() by the agent
ClosedBy(a) == sock' = [sock EXCEPT ![a] = "closed"]

\* the positions of an agent inside `async for` of listen: before and after
\* it closed its channel itself
ListenPcs == {"listening", "closed"}

\* `sender.upper()` raises on a message without sender
NoSender(data) == Get(data, "sender", None) = None

\* listen: the next event is handed to handle_message, which runs up to its
\* sleep (session_start for the company, message) or to its end.  Events that
\* were queued before the agent closed its channel are handed to it as well.
\* An exception ends listen, whose finally clause closes the channel.
AgentHandles(a) ==
    /\ agent_pc[a] \in ListenPcs
    /\ toAgent[a] # <<>>
    /\ LET data == Head(toAgent[a]) IN
       /\ toAgent' = [toAgent EXCEPT ![a] = Tail(@)]
       /\ handled' = [handled EXCEPT ![a] = Append(@, data.type)]
       /\ CASE data.type = "session_start" ->
                 /\ agent_pc' = [agent_pc EXCEPT ![a] =
                        IF Opens(a) THEN "first" ELSE @]
                 /\ UNCHANGED <<is_active, agent_history, sock>>
            [] data.type = "message" ->
                 IF Echo(a, data)
                 THEN UNCHANGED <<is_active, agent_history, agent_pc, sock>>
                 ELSE IF NoSender(data)
                 THEN /\ agent_pc' = [agent_pc EXCEPT ![a] = "done"]
                      /\ ClosedBy(a)
                      /\ UNCHANGED <<is_active, agent_history>>
                 ELSE /\ agent_history' = [agent_history EXCEPT ![a] = Append(@, "other")]
                      /\ agent_pc' = [agent_pc EXCEPT ![a] = "respond"]
                      /\ UNCHANGED <<is_active, sock>>
            [] data.type \in {"conclusion", "end"} ->
                 /\ is_active' = [is_active EXCEPT ![a] = FALSE]
                 /\ ClosedBy(a)
                 /\ agent_pc' = [agent_pc EXCEPT ![a] = "closed"]
                 /\ UNCHANGED agent_history
    /\ Emit(<<>>)
    /\ NoJudgment
    /\ UNCHANGED <<relayVars, pc, frame, countVars, agent_turn_count, toRelay,
                   generation>>

\* turn_count after a turn was generated
TurnGeneratedTwice(n) == n + 2
TurnGenerated(n) == n + 1
\* the outcomes of the agent's generate_content call
Generations == {"ok", "raises"}

(***************************************************************************)
(* The text of a generated turn.  A text is a sequence of characters.      *)
(***************************************************************************)
White == {" ", "\n"}
\* text.replace('**', '').replace('__', '').replace('*', '') ... : the
\* characters removed, among those of the replies below
Markdown == {"*", "_", "#"}
\* line.lstrip('- ...*1234567890.')
Bullets == {"-", " ", "*", "1", "2", "."}

RECURSIVE LStrip(_, _)
LStrip(text, chars) ==
    IF text # <<>> /\ Head(text) \in chars THEN LStrip(Tail(text), chars) ELSE text
RECURSIVE RStrip(_, _)
RStrip(text, chars) ==
    IF text # <<>> /\ text[Len(text)] \in chars
    THEN RStrip(SubSeq(text, 1, Len(text) - 1), chars)
    ELSE text
\* str.strip()
Strip(text) == RStrip(LStrip(text, White), White)

\* text.split('\n')
RECURSIVE SplitLines(_)
SplitLines(text) ==
    IF \A i \in 1 .. Len(text) : text[i] # "\n" THEN <<text>>
    ELSE LET i == CHOOSE j \in 1 .. Len(text) :
                    text[j] = "\n" /\ \A k \in 1 .. (j - 1) : text[k] # "\n"
         IN <<SubSeq(text, 1, i - 1)>> \o SplitLines(SubSeq(text, i + 1, Len(text)))

\* the loop over the lines: blank lines and lines of bullets alone are dropped
CleanLine(line) == LStrip(LStrip(Strip(line), Bullets), White)
RECURSIVE CleanLines(_)
CleanLines(lines) ==
    IF lines = <<>> THEN <<>>
    ELSE LET line == CleanLine(Head(lines)) IN
         (IF line # <<>> THEN <<line>> ELSE <<>>) \o CleanLines(Tail(lines))

\* ' '.join(cleaned)
RECURSIVE Join(_)
Join(lines) ==
    IF lines = <<>> THEN <<>>
    ELSE IF Len(lines) = 1 THEN lines[1]
    ELSE lines[1] \o <<" ">> \o Join(Tail(lines))

\* while '  ' in text: text = text.replace('  ', ' ')
RECURSIVE Squeeze(_)
Squeeze(text) ==
    IF Len(text) < 2 THEN text
    ELSE IF text[1] = " " /\ text[2] = " " THEN Squeeze(Tail(text))
    ELSE <<text[1]>> \o Squeeze(Tail(text))

_clean_for_speech(text) ==
    LET IsText(ch) == ch \notin Markdown
        plain == SelectSeq(text, IsText)
    IN Strip(Squeeze(Join(CleanLines(SplitLines(plain)))))

\* what generate_content returns when it returns: a turn, a turn given as a
\* bullet below a heading, nothing, blanks, markup alone, a bare bullet
Replies ==
    { <<"a">>, <<"#", " ", "\n", "-", " ", "a">>, <<>>, <<" ">>, <<"*", "*">>,
      <<"-", " ">> }
\* response_text as it is sent: stripped, then cleaned for speech
ResponseText(reply) == _clean_for_speech(Strip(reply))

\* A generated turn departs from the usual run when its text is empty.
Departs(reply) ==
    LET cost == IF ResponseText(reply) = <<>> THEN 1 ELSE 0 IN
    /\ deviations + cost <= MaxDeviations
    /\ deviations' = deviations + cost

\* where the agent is once ai_generate_response has returned: handle_message
\* returns too, and listen waits for the next event
AfterGenerationRetry(g) == IF g = "raises" THEN "respond" ELSE "listening"
AfterGeneration(g) == "listening"

\* ai_generate_response after the sleep: the oracle call, then the `message`
\* event, or the `error` event when anything in the try block raised; a send
\* that raises ends listen, whose finally clause closes the channel
ai_generate_response(a, g, reply) ==
    LET generated == g = "ok"
        ev == IF generated
              THEN MessageEvent(a, TurnGenerated(agent_turn_count[a]), ResponseText(reply))
              ELSE AgentError(a)
    IN /\ generation' = [generation EXCEPT ![a] = g]
       /\ IF generated
          THEN /\ agent_history' = [agent_history EXCEPT ![a] = Append(@, "self")]
               /\ agent_turn_count' =
                     [agent_turn_count EXCEPT ![a] = TurnGenerated(@)]
          ELSE UNCHANGED <<agent_history, agent_turn_count>>
       /\ IF CanSend(a)
          THEN /\ toRelay' = [toRelay EXCEPT ![a] = Append(@, ev)]
               /\ agent_pc' = [agent_pc EXCEPT ![a] = AfterGeneration(g)]
          ELSE /\ agent_pc' = [agent_pc EXCEPT ![a] = "done"]
               /\ UNCHANGED toRelay

AgentResponds(a) ==
    /\ agent_pc[a] \in {"first", "respond"}
    /\ \E g \in Generations :
          IF g = "ok"
          THEN \E reply \in Replies :
                  /\ Departs(reply)
                  /\ ai_generate_response(a, g, reply)
          ELSE /\ ai_generate_response(a, g, <<>>)
               /\ UNCHANGED deviations
    /\ Emit(<<>>)
    /\ NoJudgment
    /\ UNCHANGED <<relayVars, sock, pc, frame, late, msgEvents, sessions, ends,
                   disconnects, is_active, toAgent, handled>>

\* listen ends: the channel is closed and no event is left in it
AgentListenEnds(a) ==
    /\ agent_pc[a] \in ListenPcs
    /\ sock[a] = "closed"
    /\ toAgent[a] = <<>>
    /\ agent_pc' = [agent_pc EXCEPT ![a] = "done"]
    /\ Emit(<<>>)
    /\ NoJudgment
    /\ UNCHANGED <<relayVars, sock, pc, frame, countVars, is_active, agent_turn_count,
                   agent_history, toAgent, toRelay, handled, generation>>

(***************************************************************************)
(* The relay's handlers, fed by the agents' channels                       *)
(***************************************************************************)
\* The handler of c takes the next event of its channel, whether or not
\* another handler is suspended in a send (see Spend).
Takes(c, type) ==
    /\ toRelay[c] # <<>>
    /\ Head(toRelay[c]).type = type
    /\ toRelay' = [toRelay EXCEPT ![c] = Tail(@)]
    /\ UNCHANGED agentLocals

\* The oracle's answers in the runs with agents: one of each kind the relay
\* tells apart, which are a call that raises, a text that is no JSON, a
\* judgment to go on and a judgment to end.
RunOutcomes ==
    { [raises |-> TRUE],
      [raises |-> FALSE, text |-> <<Prose>>],
      [raises |-> FALSE, text |-> <<JsonTok(Obj(Accepting))>>],
      [raises |-> FALSE,
       text |-> <<JsonTok(Obj([should_end |-> FALSE, confidence |-> Num(90),
                               status |-> "ONGOING", reason |-> "because"]))>>] }
Answered == answer'.asked => answer'.o \in RunOutcomes

RelayRegister(c) ==
    /\ Takes(c, "register")
    /\ Register(c, Head(toRelay[c]).role)
    /\ Deliver

RelayMessage(c) ==
    /\ Takes(c, "message")
    /\ Message(c, Head(toRelay[c]))
    /\ Answered
    /\ Deliver

\* an `error` event is printed
RelayErrorAsMessage(c) ==
    /\ Takes(c, "error")
    /\ Message(c, Head(toRelay[c]))
    /\ Answered
    /\ Deliver
RelayError(c) ==
    /\ Takes(c, "error")
    /\ Idle(c)
    /\ Spend(c, 0)
    /\ Emit(<<>>)
    /\ NoJudgment
    /\ UNCHANGED <<relayVars, sock, pc, frame, late, msgEvents, sessions, ends,
                   disconnects, toAgent>>

\* a handler of the relay goes on after an await
RelayResumes(c) ==
    /\ \/ ResumeStartSession(c)
       \/ ResumeCheck(c)
       \/ ResumeConclusion(c)
       \/ ResumeGrace(c)
       \/ ResumeEnd(c)
       \/ ResumeEndFin(c)
    /\ Answered
    /\ Deliver
    /\ UNCHANGED <<agentLocals, toRelay>>

\* the agent closed its channel with a closing handshake: `async for` ends
RelayHandlerEnds(c) ==
    /\ toRelay[c] = <<>>
    /\ HandlerExit(c, "ok")
    /\ Deliver
    /\ UNCHANGED <<agentLocals, toRelay>>

EndToEndNext ==
    \/ \E a \in Agents : AgentConnect(a)
    \/ \E a \in Agents : AgentHandles(a)
    \/ \E a \in Agents : AgentResponds(a)
    \/ \E a \in Agents : AgentListenEnds(a)
    \/ \E c \in Agents : RelayRegister(c)
    \/ \E c \in Agents : RelayMessage(c)
    \/ \E c \in Agents : RelayError(c)
    \/ \E c \in Agents : RelayResumes(c)
    \/ \E c \in Agents : RelayHandlerEnds(c)

\* the relay and two BaseAgentAI agents
EndToEnd == Init /\ [][EndToEndNext]_vars

(***************************************************************************)
(* C11  Proposer speaks first: with two agents, the first entry of the     *)
(* relay's history comes from the company agent, which generated its first *)
(* turn only after handling `session_start`; the investor agent's own      *)
(* history begins with a turn it received, never with one it sent.         *)
(***************************************************************************)
ProposerSpeaksFirst ==
    /\ conversation_history # <<>> =>
          /\ conversation_history[1].role = "company"
          /\ conversation_history[1].sender = NameOf(1)
    /\ \A a \in Agents :
          AgentRole(a) = "company" /\ (agent_turn_count[a] > 0 \/ agent_pc[a] = "first")
             => handled[a] # <<>> /\ handled[a][1] = "session_start"
    /\ \A a \in Agents :
          AgentRole(a) = "investor" =>
             /\ agent_pc[a] # "first"
             /\ agent_history[a] # <<>> => agent_history[a][1] = "other"
             /\ \A i \in 1 .. Len(toRelay[a]) :
                   toRelay[a][i].type = "message" => agent_history[a][1] = "other"

\* the company has opened and the investor has answered
ProposerSpeaksFirstWitness ==
    /\ Len(conversation_history) = 2
    /\ conversation_history[2].role = "investor"
    /\ agent_history[2] = <<"other", "self">>
    /\ agent_history[1] = <<"self">>

(***************************************************************************)
(* C12  Relay to the counterparty: a `message` event received from a       *)
(* connection during an active session, both roles being registered on     *)
(* open channels, is forwarded in that step, once and unchanged, to the    *)
(* connection of the other role and not to the one it came from.           *)
(***************************************************************************)
RelayToCounterparty ==
    [][ ( /\ msgEvents' = msgEvents + 1
          /\ session_active
          /\ company_agent # NoConn /\ investor_agent # NoConn
          /\ company_agent # investor_agent
          /\ CanSend(company_agent) /\ CanSend(investor_agent) )
          => \E c \in Conns :
                /\ pc[c] = "idle" /\ pc'[c] = "fwd"
                /\ Len(out') = 1
                /\ out'[1].ev.type = "message"
                /\ Turn(out'[1].ev) = conversation_history'[Len(conversation_history')]
                /\ out'[1].to # c
                /\ c = company_agent => out'[1].to = investor_agent
                /\ c = investor_agent => out'[1].to = company_agent ]_vars

(***************************************************************************)
(* C13  Alternation by convention: with two BaseAgentAI agents the roles   *)
(* of the relay's conversation_history alternate, company first: entry i   *)
(* is the company's for odd i and the investor's for even i.               *)
(***************************************************************************)
AlternationByConvention ==
    \A i \in 1 .. Len(conversation_history) :
        conversation_history[i].role = (IF i % 2 = 1 THEN "company" ELSE "investor")

\* a whole negotiation, up to the ceiling
AlternationByConventionWitness ==
    /\ Len(conversation_history) = max_turns
    /\ conversation_history[max_turns].sender = NameOf(2)
    /\ agent_turn_count[1] = agent_turn_count[2]

(***************************************************************************)
(* Inside end_session                                                      *)
(***************************************************************************)
\* the positions of a handler that is inside end_session
EndPcs == {"concl_mid", "grace", "end_mid", "end_fin"}
\* the handler of c called end_session in this step
Decided(c) == pc[c] \notin EndPcs /\ pc'[c] \in EndPcs
\* a connection that is registered for a role and whose channel is open
Reachable(slot) == slot # NoConn /\ CanSend(slot)
\* the status and reason of the decision taken in this step
DecidedStatus ==
    IF answer'.asked
    THEN Get(JsonLoads(StripMarkdown(answer'.o.text)).v.obj, "status", "ONGOING")
    ELSE "MAX_TURNS_REACHED"
DecidedReason ==
    IF answer'.asked
    THEN Get(JsonLoads(StripMarkdown(answer'.o.text)).v.obj, "reason", DefaultReason)
    ELSE MaxTurnsReason
\* the deliveries were made to exactly this connection, one event
SentOnlyTo(msgs, d) == Len(msgs) = 1 /\ msgs[1].to = d

(***************************************************************************)
(* C14  Conclusion before end: a handler that acts on a termination        *)
(* decision first sends `conclusion` to the company's and then to the      *)
(* investor's connection, as far as they are registered and open, and only *)
(* after that `end` to each; the conclusion carries the decision's status  *)
(* and reason and total_turns = turn_count at the decision, the end the    *)
(* same reason.  No other step sends a conclusion or an end.               *)
(***************************************************************************)
ConclusionBeforeEnd ==
    [][ /\ \A c \in Conns :
           /\ Decided(c) =>
                /\ OfType(out', "end") = {}
                /\ \A i \in 1 .. Len(out') :
                      /\ out'[i].ev.type = "conclusion"
                      /\ out'[i].ev.status = DecidedStatus
                      /\ out'[i].ev.reason = DecidedReason
                      /\ out'[i].ev.total_turns = turn_count'
                /\ frame'[c].reason = DecidedReason
                /\ Reachable(company_agent) => SentOnlyTo(out', company_agent)
                /\ ~Reachable(company_agent) /\ Reachable(investor_agent)
                      => SentOnlyTo(out', investor_agent)
           /\ pc[c] = "concl_mid" /\ pc'[c] # pc[c] =>
                /\ pc'[c] = "grace"
                /\ frame'[c].reason = frame[c].reason
                /\ \A i \in 1 .. Len(out') : out'[i].ev = frame[c]
                /\ Reachable(investor_agent) => SentOnlyTo(out', investor_agent)
           /\ pc[c] \in {"grace", "end_mid"} /\ pc'[c] # pc[c] =>
                /\ \A i \in 1 .. Len(out') :
                      out'[i].ev = [type |-> "end", reason |-> frame[c].reason]
                /\ pc[c] = "grace" /\ Reachable(company_agent)
                      => SentOnlyTo(out', company_agent)
                /\ (pc[c] = "end_mid" \/ ~Reachable(company_agent))
                      /\ Reachable(investor_agent)
                      => SentOnlyTo(out', investor_agent)
           /\ pc'[c] \in {"end_mid", "end_fin"} /\ pc'[c] # pc[c]
                => pc[c] \in {"grace", "end_mid"}
        /\ OfType(out', "conclusion") # {}
              => \E c \in Conns : Decided(c) \/ (pc[c] = "concl_mid" /\ pc'[c] = "grace")
        /\ OfType(out', "end") # {}
              => \E c \in Conns : pc[c] \in {"grace", "end_mid"} /\ pc'[c] # pc[c] ]_vars

\* both connections were sent the conclusion and then the end of a session
\* that reached the ceiling
ConclusionBeforeEndWitness ==
    /\ ends = 1
    /\ sentCount["conclusion"] = 2
    /\ sentCount["end"] = 2
    /\ \E c \in Conns : pc[c] = "end_fin"
    /\ out = <<[to |-> investor_agent, ev |-> [type |-> "end", reason |-> MaxTurnsReason]]>>

(***************************************************************************)
(* C15  Agent shutdown protocol: an agent that has handled `conclusion`    *)
(* is still active with its channel open; it is inactive, its channel      *)
(* closed by itself, only once the last event it handled is `end`.         *)
(***************************************************************************)
AgentShutdownProtocol ==
    \A a \in Agents :
        LET last == handled[a][Len(handled[a])] IN
        /\ handled[a] # <<>> /\ last = "conclusion"
              => is_active[a] /\ sock[a] = "open"
        /\ ~is_active[a] => handled[a] # <<>> /\ last = "end"

(***************************************************************************)
(* The relay and its two agents, where a handler whose await is over       *)
(* (a send that returned or raised, the two-second sleep) is resumed by    *)
(* the event loop                                                          *)
(***************************************************************************)
FairEndToEnd == EndToEnd /\ \A c \in Agents : WF_vars(RelayResumes(c))

(***************************************************************************)
(* C16  ENDING leads to ENDED: a handler that has called end_session       *)
(* eventually returns from it with session_active false, whether or not    *)
(* the agents' channels are still open and whether or not the oracle       *)
(* produced the conclusion; it leaves end_session in no other way;         *)
(* session_active is true only after a session start and is cleared by     *)
(* nothing but the end of end_session.                                     *)
(***************************************************************************)
EndingLeadsToEnded ==
    /\ \A c \in Agents : (pc[c] \in EndPcs) ~> (pc[c] = "idle" /\ ~session_active)
    /\ [](session_active => sessions > 0)
    /\ [][ /\ \A c \in Conns :
                pc[c] \in EndPcs /\ pc'[c] \notin EndPcs
                   => pc'[c] = "idle" /\ ~session_active'
           /\ session_active /\ ~session_active'
                => \E c \in Conns : pc[c] \in EndPcs /\ pc'[c] = "idle" ]_vars

\* a session has ended although no `end` could be sent: both agents had
\* closed their channels
EndingLeadsToEndedWitness ==
    /\ sessions = 1
    /\ ends > 0
    /\ ~session_active
    /\ sentCount["end"] = 0
    /\ \A a \in Agents : sock[a] = "closed"
    /\ \A c \in Conns : pc[c] \notin EndPcs

(***************************************************************************)
(* C17  Serialized relay handling: when the relay starts handling an       *)
(* inbound `message` event, no handler is part-way through an earlier one: *)
(* every handler is waiting for its next event or has ended.               *)
(***************************************************************************)
SerializedHandling ==
    [][ msgEvents' = msgEvents + 1
          => \A c \in Conns : pc[c] \in {"none", "idle", "done"} ]_vars

(***************************************************************************)
(* C18  Single-party disconnect: when the handler of a connection that is  *)
(* registered for a role finds its channel closed during an active         *)
(* session of two registered roles, exactly the slots holding that         *)
(* connection are cleared, and                                             *)
(* session_active, turn_count and conversation_history stay as they are    *)
(* and no conclusion or end is sent; the slot of a connection whose        *)
(* channel is open is not cleared when its message is handled.             *)
(***************************************************************************)
SinglePartyDisconnect ==
    [][ \A c \in Conns :
          /\ ( /\ session_active
               /\ company_agent # NoConn /\ investor_agent # NoConn
               /\ c \in {company_agent, investor_agent}
               /\ pc[c] = "idle" /\ sock[c] = "closed" /\ pc'[c] = "done" )
               => /\ company_agent' = (IF company_agent = c THEN NoConn ELSE company_agent)
                  /\ investor_agent' = (IF investor_agent = c THEN NoConn ELSE investor_agent)
                  /\ session_active'
                  /\ turn_count' = turn_count
                  /\ conversation_history' = conversation_history
                  /\ Closing(out') = {}
          /\ ( /\ session_active
               /\ company_agent # NoConn /\ investor_agent # NoConn
               /\ pc[c] = "idle" /\ sock[c] = "open" /\ pc'[c] # "idle"
               /\ msgEvents' = msgEvents + 1 )
               => /\ company_agent = c => company_agent' = c
                  /\ investor_agent = c => investor_agent' = c ]_vars


(***************************************************************************)
(* C19  Last registration wins: each role has at most one registered       *)
(* connection; a `register` for a role, filled or not, makes the sending   *)
(* connection that role's handle and its name the role's display name;     *)
(* and every `message` the relay forwards goes to the connection that      *)
(* holds the counterparty role at that moment, the newest registrant, and  *)
(* to no other.                                                            *)
(***************************************************************************)
Relayed == { i \in 1 .. Len(out) : out[i].ev.type = "message" }

LastRegistrationWins ==
    /\ company_agent \in Conns \cup {NoConn}
    /\ investor_agent \in Conns \cup {NoConn}
    /\ company_agent # NoConn => company_name = NameOf(company_agent)
    /\ investor_agent # NoConn => investor_name = NameOf(investor_agent)
    /\ \A i \in Relayed :
          /\ out[i].ev.role = "company" => out[i].to = investor_agent
          /\ out[i].ev.role = "investor" => out[i].to = company_agent

\* connection 3 took the company role over from connection 1, which is still
\* open, and the investor's message is being forwarded to connection 3 alone
LastRegistrationWinsWitness ==
    /\ company_agent = 3 /\ company_name = NameOf(3)
    /\ 1 \in clients /\ sock[1] = "open"
    /\ investor_agent = 2
    /\ Relayed # {}
    /\ \A i \in Relayed : out[i].ev.role = "investor" /\ out[i].to = 3


(***************************************************************************)
(* C20  Generation failure is reported, not fatal: when the oracle call of *)
(* an agent's turn raises, the agent sends exactly one event, an `error`   *)
(* event with its own name and the error detail, and no `message` event;   *)
(* its turn_count and its history are unchanged; it stays active, its      *)
(* channel stays open and it is back in listen, where it handles the       *)
(* events that arrive afterwards.                                          *)
(***************************************************************************)
GenerationFails(a) ==
    /\ agent_pc[a] \in {"first", "respond"}
    /\ agent_pc'[a] # agent_pc[a]
    /\ generation'[a] = "raises"

GenerationFailureReported ==
    [][ \A a \in Agents :
          GenerationFails(a) =>
              /\ Len(toRelay'[a]) = Len(toRelay[a]) + 1
              /\ SubSeq(toRelay'[a], 1, Len(toRelay[a])) = toRelay[a]
              /\ LET ev == toRelay'[a][Len(toRelay'[a])] IN
                     /\ ev.type = "error"
                     /\ ev.sender = NameOf(a)
                     /\ DOMAIN ev = {"type", "error", "sender"}
              /\ agent_turn_count'[a] = agent_turn_count[a]
              /\ agent_history'[a] = agent_history[a]
              /\ is_active[a] /\ is_active'[a]
              /\ sock[a] = "open" /\ sock'[a] = "open"
              /\ agent_pc'[a] = "listening" ]_vars

(***************************************************************************)
(* C21  No empty turn: no `message` event an agent sends has an empty      *)
(* text, and no Turn of the relay's history has one: an oracle output that *)
(* is empty, or empty once cleaned, is not sent.                           *)
(***************************************************************************)
NoEmptyTurn ==
    /\ \A a \in Agents : \A i \in 1 .. Len(toRelay[a]) :
          toRelay[a][i].type = "message" => toRelay[a][i].text # <<>>
    /\ \A i \in 1 .. Len(conversation_history) :
          conversation_history[i].text # <<>>

(***************************************************************************)
(* C22  Protocol errors are ignored: a `message` event that lacks a        *)
(* required field (text, sender, role or turn) changes neither turn_count  *)
(* nor conversation_history, so every Turn of the history is complete and  *)
(* turn_count counts complete Turns only.                                  *)
(***************************************************************************)
Complete(turn) ==
    /\ turn.sender # None
    /\ turn.role # None
    /\ turn.text # None
    /\ turn.turn # 0

ProtocolErrorsIgnored ==
    /\ \A i \in 1 .. Len(conversation_history) : Complete(conversation_history[i])
    /\ turn_count = Len(SelectSeq(conversation_history, Complete))

(***************************************************************************)
(* C23  Relay-side error containment: a step in which the handler of       *)
(* connection c ends with an exception removes c from the clients and from *)
(* the slots it holds, and nothing else: a slot another connection held    *)
(* before the event keeps it, unless the event was c's registration for    *)
(* that role; the count and the history keep what the event had done to    *)
(* them before the exception; no other handler ends, no other channel is   *)
(* closed, and no `conclusion` or `end` is sent.                           *)
(***************************************************************************)
RaisedIn(c) == Raised /\ pc[c] # "done" /\ pc'[c] = "done"

ErrorContainment ==
    [][ \A c \in Conns :
          RaisedIn(c) =>
              /\ clients' = clients \ {c}
              /\ c \notin {company_agent', investor_agent'}
              /\ company_agent' # company_agent =>
                    /\ company_agent' = NoConn
                    /\ company_agent = c \/ (c \notin clients /\ company_name' = NameOf(c))
              /\ investor_agent' # investor_agent =>
                    /\ investor_agent' = NoConn
                    /\ investor_agent = c \/ (c \notin clients /\ investor_name' = NameOf(c))
              /\ IF msgEvents' = msgEvents + 1
                 THEN /\ turn_count' = turn_count + 1
                      /\ Len(conversation_history') = Len(conversation_history) + 1
                      /\ SubSeq(conversation_history', 1, Len(conversation_history))
                            = conversation_history
                 ELSE /\ turn_count' = turn_count
                      /\ conversation_history' = conversation_history
              /\ \A d \in Conns \ {c} : pc'[d] = pc[d] /\ sock'[d] = sock[d]
              /\ Closing(out') = {} ]_vars

\* The company's handler ended with an exception after the company's first
\* message; the investor's answer was then counted by the relay and, with no
\* company registered, forwarded to nobody; the investor is still served.
ErrorContainmentWitness ==
    /\ pc[1] = "done" /\ sock[1] = "closed" /\ 1 \notin clients
    /\ company_agent = NoConn
    /\ investor_agent = 2 /\ pc[2] = "idle" /\ sock[2] = "open"
    /\ turn_count = 2
    /\ conversation_history[2].role = "investor"
    /\ sentCount["message"] = 1

(***************************************************************************)
(* C24  Signals arrive after sending is finished: once the relay has acted *)
(* on a termination decision, no agent has a turn generation pending or in *)
(* progress, and no `conclusion` waits in the channel of an agent that is  *)
(* still working on a turn.                                                *)
(***************************************************************************)
Generating(a) == agent_pc[a] \in {"first", "respond"}

SignalsAfterSending ==
    \A a \in Agents :
        /\ ends > 0 => ~Generating(a)
        /\ Generating(a) =>
              \A i \in 1 .. Len(toAgent[a]) : toAgent[a][i].type # "conclusion"

(***************************************************************************)
(* C25  Even-turn gating: the judgment oracle is given a transcript only   *)
(* in a termination check with an oracle client, min_turns <= turn_count   *)
(* < max_turns and turn_count even, and the transcript is the last six     *)
(* entries of the history, all of them when there are six or fewer; a      *)
(* check at an odd turn_count of that range calls no oracle and ends       *)
(* nothing.                                                                *)
(***************************************************************************)
EvenTurnGating ==
    [][ /\ answer'.asked =>
              /\ client
              /\ CheckRan
              /\ min_turns <= turn_count' /\ turn_count' < max_turns
              /\ turn_count' % 2 = 0
              /\ judgedAt' = judgedAt \cup {turn_count'}
              /\ LET h == conversation_history'
                     n == IF Len(h) < 6 THEN Len(h) ELSE 6
                 IN answer'.recent = [i \in 1 .. n |-> h[Len(h) - n + i]]
        /\ ( /\ CheckRan
             /\ min_turns <= turn_count' /\ turn_count' < max_turns
             /\ turn_count' % 2 = 1 )
              => /\ ~answer'.asked
                 /\ judgedAt' = judgedAt
                 /\ ~EndCalled
                 /\ Closing(out') = {} ]_vars

\* the oracle was consulted at turn 8 and shown six of the eight entries
EvenTurnGatingWitness ==
    /\ answer.asked
    /\ turn_count = 8
    /\ Len(conversation_history) = 8
    /\ Len(answer.recent) = 6
    /\ answer.recent[1] = conversation_history[3]
    /\ 7 \notin judgedAt

(***************************************************************************)
(* An agent on its own: whatever the other end of its channel sends        *)
(***************************************************************************)
\* the events the other end may send to agent a: the start of a session, a
\* message of the counterparty, a message under the agent's own name, the
\* conclusion
\* a turn of the counterparty when both agents were started under one display
\* name: handle_registration accepts any name, and the counterparty's
\* ai_generate_response signs its turns with it
NamesakeEvent(a) == [MessageEvent(3 - a, 1, <<"a">>) EXCEPT !.sender = NameOf(a)]

InboundEvents(a) ==
    { [type |-> "session_start", company |-> NameOf(1), investor |-> NameOf(2)],
      MessageEvent(3 - a, 1, <<"a">>),
      MessageEvent(a, 1, <<"a">>),
      NamesakeEvent(a),
      [type |-> "message", text |-> <<"a">>, role |-> AgentRole(3 - a), turn |-> 1],
      [type |-> "conclusion", text |-> "simple", status |-> "ONGOING",
       reason |-> DefaultReason, total_turns |-> 0] }

Inbound(a, ev) ==
    /\ agent_pc[a] # "init"
    /\ sock[a] = "open"
    /\ Len(handled[a]) + Len(toAgent[a]) < MaxInbound
    /\ toAgent' = [toAgent EXCEPT ![a] = Append(@, ev)]
    /\ UNCHANGED <<relayVars, netVars, countVars, judgeVars, agentLocals, toRelay>>

AgentAloneNext ==
    \/ \E a \in Agents : AgentConnect(a)
    \/ \E a \in Agents : \E ev \in InboundEvents(a) : Inbound(a, ev)
    \/ \E a \in Agents : AgentHandles(a)
    \/ \E a \in Agents : AgentResponds(a)
    \/ \E a \in Agents : AgentListenEnds(a)

AgentAlone == Init /\ [][AgentAloneNext]_vars

(***************************************************************************)
(* C26  Echo guard: an agent that handles a `message` event whose sender   *)
(* is its own name changes neither its transcript nor its turn_count,      *)
(* sends nothing, and goes on in listen where it was.                      *)
(***************************************************************************)
HandlesEcho(a) ==
    /\ handled'[a] # handled[a]
    /\ Head(toAgent[a]).type = "message"
    /\ Get(Head(toAgent[a]), "sender", None) = NameOf(a)

EchoGuard ==
    [][ \A a \in Agents :
          HandlesEcho(a) =>
              /\ agent_history'[a] = agent_history[a]
              /\ agent_turn_count'[a] = agent_turn_count[a]
              /\ toRelay'[a] = toRelay[a]
              /\ agent_pc'[a] = agent_pc[a]
              /\ is_active'[a] = is_active[a]
              /\ sock'[a] = sock[a] ]_vars

\* the investor has handled a message and a message of the company, and only
\* the latter is in its transcript: the other bore the investor's name
EchoGuardWitness ==
    /\ handled[2] = <<"message", "message">>
    /\ agent_history[2] = <<"other">>
    /\ toRelay[2] = <<RegisterEvent(2)>>

(***************************************************************************)
(* C27  Sender sequence number: the k-th `message` event an agent sends    *)
(* carries turn = k, whether the relay has taken the event or not; the     *)
(* agent's own count is the number its last `message` event carried, so    *)
(* that a failed generation uses no number (one more only when the agent   *)
(* had closed its channel and the send of its last turn raised); and the   *)
(* relay's turn_count is the sum of the numbers the two agents' last       *)
(* `message` events carried, which are the agents' own counts while their  *)
(* channels are open, less the `message` events the relay has not taken.   *)
(***************************************************************************)
\* the turn numbers agent a has sent, in order: those the relay has recorded,
\* then those still in the agent's channel
SentTurns(a) ==
    LET Mine(t) == t.role = AgentRole(a)
        IsMessage(e) == e.type = "message"
        recorded == SelectSeq(conversation_history, Mine)
        queued == SelectSeq(toRelay[a], IsMessage)
    IN [i \in 1 .. Len(recorded) |-> recorded[i].turn]
          \o [i \in 1 .. Len(queued) |-> queued[i].turn]
\* the turn number carried by the last `message` event agent a has sent
LastSent(a) ==
    IF SentTurns(a) = <<>> THEN 0 ELSE SentTurns(a)[Len(SentTurns(a))]
\* the `message` events of agent a the relay has not taken yet
InTransit(a) ==
    Cardinality({i \in 1 .. Len(toRelay[a]) : toRelay[a][i].type = "message"})

\* the statement with the sum taken at every moment, a message on its way to
\* the relay included
SenderSequenceAtAllTimes ==
    /\ \A a \in Agents : \A k \in 1 .. Len(SentTurns(a)) : SentTurns(a)[k] = k
    /\ turn_count = LastSent(1) + LastSent(2)

SenderSequence ==
    /\ \A a \in Agents :
          /\ \A k \in 1 .. Len(SentTurns(a)) : SentTurns(a)[k] = k
          /\ agent_turn_count[a] - LastSent(a) \in {0, 1}
          /\ sock[a] = "open" => agent_turn_count[a] = LastSent(a)
    /\ turn_count = LastSent(1) + LastSent(2) - InTransit(1) - InTransit(2)
    /\ (\A a \in Agents : sock[a] = "open")
          => turn_count = agent_turn_count[1] + agent_turn_count[2]
                             - InTransit(1) - InTransit(2)

\* five turns into a session: the company's third message is recorded by the
\* relay as the fifth Turn, with turn = 3
SenderSequenceWitness ==
    /\ turn_count = 5
    /\ agent_turn_count[1] = 3 /\ agent_turn_count[2] = 2
    /\ conversation_history[5].turn = 3
    /\ conversation_history[4].turn = 2

(***************************************************************************)
(* C28  Monotone, append-only session record: no step of the relay         *)
(* (register, message, error, disconnect, end_session, the start of a      *)
(* later session) lowers turn_count, and every step leaves the history it  *)
(* found as a prefix of the history it leaves.                             *)
(***************************************************************************)
AppendOnlyRecord ==
    [][ /\ turn_count' >= turn_count
        /\ Len(conversation_history') >= Len(conversation_history)
        /\ SubSeq(conversation_history', 1, Len(conversation_history))
              = conversation_history ]_vars

\* a second session has started after the first one ended, and the record of
\* the first is still there
AppendOnlyRecordWitness ==
    /\ sessions = 2
    /\ ends > 0
    /\ session_active
    /\ turn_count > min_turns
    /\ Len(conversation_history) = turn_count

(***************************************************************************)
(* C29  One session at a time: while session_active is true no step starts *)
(* a session, whatever is registered or registered again, and the only     *)
(* `session_start` sent is the second half of the broadcast that started   *)
(* the session; a session starts only from session_active false, and no    *)
(* session has more than its one broadcast of two events.                  *)
(***************************************************************************)
OneSessionAtATime ==
    [][ /\ session_active =>
              /\ sessions' = sessions
              /\ OfType(out', "session_start") # {} =>
                    /\ \E c \in Conns : pc[c] = "ss_mid" /\ pc'[c] # "ss_mid"
                    /\ Len(out') = 1
        /\ sessions' # sessions =>
              /\ ~session_active /\ session_active'
              /\ sessions' = sessions + 1
        /\ sentCount'["session_start"] <= 2 * sessions' ]_vars

\* connection 3 has registered for the company's role, which connection 1
\* held, in the middle of the one session: nothing was started or sent again
OneSessionAtATimeWitness ==
    /\ session_active
    /\ sessions = 1
    /\ company_agent = 3 /\ investor_agent = 2
    /\ 1 \in clients /\ sock[1] = "open"
    /\ sentCount["session_start"] = 2
    /\ turn_count > 0
    /\ \A c \in Conns : pc[c] = "idle"

(***************************************************************************)
(* C30  No retry after a failed generation: an agent sends a `message`     *)
(* event only as the answer to an inbound event it has handled, a          *)
(* `message` of the counterparty or, for the company, `session_start`; a   *)
(* generation that raised leaves it out of ai_generate_response, with      *)
(* nothing to answer until it handles the next inbound event; and the      *)
(* relay sends nothing when it takes the `error` event.                    *)
(***************************************************************************)
SendsMessage(a) ==
    /\ Len(toRelay'[a]) = Len(toRelay[a]) + 1
    /\ toRelay'[a][Len(toRelay'[a])].type = "message"

NoRetry ==
    [][ \A a \in Agents :
          /\ SendsMessage(a) => agent_pc[a] \in {"first", "respond"}
          /\ agent_pc'[a] \in {"first", "respond"} =>
                \/ agent_pc[a] = agent_pc'[a]
                \/ /\ agent_pc[a] \in ListenPcs
                   /\ Len(handled'[a]) = Len(handled[a]) + 1
                   /\ handled'[a][Len(handled'[a])] =
                         (IF agent_pc'[a] = "first" THEN "session_start" ELSE "message")
                   /\ agent_pc'[a] = "first" => AgentRole(a) = "company"
          /\ GenerationFails(a) =>
                /\ agent_pc'[a] \notin {"first", "respond"}
                /\ CanSend(a) => agent_pc'[a] = "listening"
          /\ ( /\ toRelay[a] # <<>>
               /\ Head(toRelay[a]).type = "error"
               /\ toRelay'[a] = Tail(toRelay[a]) )
                => out' = <<>> /\ toAgent' = toAgent ]_vars

\* the company's second generation raised; the relay has taken the `error`
\* event and sent nothing; nobody has anything to handle and the session,
\* two turns old, is still active
NoRetryWitness ==
    /\ generation[1] = "raises"
    /\ agent_turn_count[1] = 1
    /\ agent_pc[1] = "listening" /\ agent_pc[2] = "listening"
    /\ \A a \in Agents : toRelay[a] = <<>> /\ toAgent[a] = <<>>
    /\ turn_count = 2
    /\ session_active
    /\ \A c \in Agents : pc[c] = "idle"

(***************************************************************************)
(* C31  Error events do not touch the session: the step in which the relay *)
(* takes an `error` event of an agent leaves turn_count, the history,      *)
(* session_active, the role slots and the names as they are, sends         *)
(* nothing, and runs no termination check: no oracle call, no end_session. *)
(***************************************************************************)
TakesError(c) ==
    /\ toRelay[c] # <<>>
    /\ Head(toRelay[c]).type = "error"
    /\ toRelay'[c] = Tail(toRelay[c])

ErrorEventsInert ==
    [][ \A c \in Agents :
          TakesError(c) =>
              /\ turn_count' = turn_count
              /\ conversation_history' = conversation_history
              /\ session_active' = session_active
              /\ company_agent' = company_agent /\ investor_agent' = investor_agent
              /\ company_name' = company_name /\ investor_name' = investor_name
              /\ clients' = clients
              /\ out' = <<>> /\ sentCount' = sentCount
              /\ judgedAt' = judgedAt /\ answer' = NoAnswer
              /\ ends' = ends /\ msgEvents' = msgEvents
              /\ pc' = pc /\ sock' = sock ]_vars

\* the investor's first generation raised and the relay has taken the `error`
\* event: the session is active with the company's one turn
ErrorEventsInertWitness ==
    /\ generation[2] = "raises"
    /\ agent_turn_count[2] = 0
    /\ toRelay[2] = <<>>
    /\ "message" \in { handled[2][i] : i \in 1 .. Len(handled[2]) }
    /\ agent_pc[2] = "listening"
    /\ turn_count = 1 /\ Len(conversation_history) = 1
    /\ session_active
    /\ company_agent = 1 /\ investor_agent = 2

(***************************************************************************)
(* The relay and the two agents under a fair event loop: a coroutine that  *)
(* can run does run                                                        *)
(***************************************************************************)
FairRun ==
    /\ EndToEnd
    /\ \A a \in Agents :
          /\ WF_vars(AgentHandles(a))
          /\ WF_vars(AgentResponds(a))
          /\ WF_vars(RelayRegister(a))
          /\ WF_vars(RelayMessage(a))
          /\ WF_vars(RelayError(a))
          /\ WF_vars(RelayResumes(a))
          /\ WF_vars(RelayHandlerEnds(a))

(***************************************************************************)
(* C32  Guaranteed termination by the ceiling: in a fair run of the relay  *)
(* and the two agents in which no turn generation raises, the session      *)
(* eventually ends, whatever the judgment oracle answers and whether it is *)
(* there or not: session_active is false after an end_session whose        *)
(* `conclusion` has been sent and whose `end` has reached every agent that *)
(* is still registered with its channel open; session_active is cleared    *)
(* only by a handler that is past the grace sleep of end_session, where    *)
(* `end` is sent; and end_session has been called by the time the check of *)
(* the turn that brought turn_count to max_turns has run.                  *)
(***************************************************************************)
NoGenerationRaises == \A a \in Agents : generation[a] # "raises"
\* the types of the events agent a has handled or has in its channel
Received(a) == handled[a] \o [i \in 1 .. Len(toAgent[a]) |-> toAgent[a][i].type]
HasReceived(a, type) == \E i \in 1 .. Len(Received(a)) : Received(a)[i] = type
SessionOver ==
    /\ sessions = 1 /\ ends > 0 /\ ~session_active
    /\ sentCount["conclusion"] > 0
    /\ \E a \in Agents : HasReceived(a, "conclusion")
    /\ \A a \in Agents :
          SlotOf(AgentRole(a)) = a /\ sock[a] = "open" => HasReceived(a, "end")

CeilingTerminates ==
    /\ []NoGenerationRaises => (sessions > 0 ~> SessionOver)
    /\ []( ( /\ turn_count >= max_turns
             /\ \A c \in Conns : pc[c] # "fwd" ) => ends > 0 )
    /\ [][ session_active /\ ~session_active'
             => /\ sentCount["conclusion"] > 0
                /\ \E c \in Agents : /\ pc[c] \in {"grace", "end_mid", "end_fin"}
                                      /\ pc'[c] = "idle" ]_vars

\* the oracle never ended the session: it ended at the ceiling, on the
\* twentieth turn, after twenty generations that succeeded
CeilingTerminatesWitness ==
    /\ SessionOver
    /\ NoGenerationRaises
    /\ judgedAt = {6, 8, 10, 12, 14, 16, 18}
    /\ agent_turn_count[2] = 10
    /\ sentCount["conclusion"] > 0

(***************************************************************************)
(* C33  Ceiling as an invariant: with the relay and its two agents,        *)
(* turn_count never exceeds max_turns and no `conclusion` event carries a  *)
(* total_turns above max_turns: the agent that receives the turn that ends *)
(* the session gets no reply counted.                                      *)
(***************************************************************************)
CeilingInvariant ==
    /\ turn_count <= max_turns
    /\ \A i \in OfType(out, "conclusion") : out[i].ev.total_turns <= max_turns

(***************************************************************************)
(* C34  Forwarding failure blames the dead peer: when the relay handles a  *)
(* `message` of the live connection that holds one role and the connection *)
(* holding the other role has its channel closed already, the sender keeps *)
(* its slot and its handler, and the slot of the closed connection is      *)
(* cleared.                                                                *)
(***************************************************************************)
\* the handler of c, holder of the role, takes c's message for a closed peer
ForwardsToDeadPeer(c, role, peer) ==
    /\ SlotOf(role) = c
    /\ pc[c] = "idle" /\ sock[c] = "open"
    /\ peer \notin {NoConn, c}
    /\ sock[peer] = "closed"
    /\ msgEvents' = msgEvents + 1
    /\ LET turn == conversation_history'[Len(conversation_history')] IN
          turn.role = role /\ turn.sender = NameOf(c)

BlamesDeadPeer ==
    [][ \A c \in Conns :
          /\ ForwardsToDeadPeer(c, "company", investor_agent) =>
                /\ company_agent' = c
                /\ pc'[c] # "done" /\ sock'[c] = "open"
                /\ investor_agent' = NoConn
          /\ ForwardsToDeadPeer(c, "investor", company_agent) =>
                /\ investor_agent' = c
                /\ pc'[c] # "done" /\ sock'[c] = "open"
                /\ company_agent' = NoConn ]_vars

(***************************************************************************)
(* C35  Stale disconnect is harmless: when the handler of a connection     *)
(* that a newer registration has replaced finds its channel closed and     *)
(* handle_disconnect runs for it, the role slots and the display names     *)
(* stay as they are, the newer connection in place, and only the entry of  *)
(* the replaced connection leaves the clients.                             *)
(***************************************************************************)
\* the handler of c, which holds no slot, ends with an exception on its
\* closed channel; the step handles no `register` that starts a session and
\* no `message`
StaleDisconnects(c) ==
    /\ c \in clients
    /\ c \notin {company_agent, investor_agent}
    /\ pc[c] = "idle" /\ sock[c] = "closed"
    /\ RaisedIn(c)
    /\ sessions' = sessions /\ msgEvents' = msgEvents

StaleDisconnectHarmless ==
    [][ \A c \in Conns :
          StaleDisconnects(c) =>
              /\ company_agent' = company_agent
              /\ investor_agent' = investor_agent
              /\ company_name' = company_name
              /\ investor_name' = investor_name
              /\ clients' = clients \ {c}
              /\ session_active' = session_active ]_vars

\* connection 3 holds the company's role of the session that connection 1
\* started as the company; connection 1 has disconnected and is no client any
\* more, and the role, the name and the session are those of connection 3
StaleDisconnectHarmlessWitness ==
    /\ company_agent = 3 /\ company_name = NameOf(3)
    /\ investor_agent = 2
    /\ clients = {2, 3}
    /\ pc[1] = "done" /\ sock[1] = "closed"
    /\ sessions = 1 /\ session_active

(***************************************************************************)
(* C36  Turns are recorded only in an active session: a step taken while   *)
(* session_active is false, before any session has started, leaves         *)
(* turn_count and conversation_history as they are.                        *)
(***************************************************************************)
TurnsOnlyInSession ==
    [][ sessions = 0 /\ ~session_active
          => /\ turn_count' = turn_count
             /\ conversation_history' = conversation_history ]_vars

(***************************************************************************)
(* C37  Counted means delivered: the relay has forwarded as many `message` *)
(* events as its history has entries and as turn_count says: a message it  *)
(* could not forward is not counted.                                       *)
(***************************************************************************)
CountedMeansDelivered ==
    /\ Len(conversation_history) = sentCount["message"]
    /\ turn_count = sentCount["message"]

(***************************************************************************)
(* C38  Conclusion is always delivered: a handler that acts on a           *)
(* termination decision sends a `conclusion` with the decision's status    *)
(* and a text, the fallback text when there is no oracle client, to the    *)
(* company's and to the investor's connection, to each that is registered  *)
(* and open when its send comes; a send that fails, to a closed channel,   *)
(* stops neither the send to the other connection nor the `end`            *)
(* broadcast: the handler never leaves end_session by an exception.        *)
(***************************************************************************)
IsConclusion(ev, status) ==
    /\ ev.type = "conclusion"
    /\ ev.status = status
    /\ ev.text \in {"ai", "simple"}
    /\ ~client => ev.text = "simple"

ConclusionDelivered ==
    [][ \A c \in Conns :
          /\ Decided(c) =>
                /\ pc'[c] = (IF Reachable(company_agent) THEN "concl_mid" ELSE "grace")
                /\ Reachable(company_agent) =>
                      /\ SentOnlyTo(out', company_agent)
                      /\ IsConclusion(out'[1].ev, DecidedStatus)
                      /\ IsConclusion(frame'[c], DecidedStatus)
                /\ ~Reachable(company_agent) /\ Reachable(investor_agent) =>
                      /\ SentOnlyTo(out', investor_agent)
                      /\ IsConclusion(out'[1].ev, DecidedStatus)
                /\ ~Reachable(company_agent) /\ ~Reachable(investor_agent) =>
                      out' = <<>>
          /\ pc[c] = "concl_mid" /\ pc'[c] # pc[c] =>
                /\ pc'[c] = "grace"
                /\ Reachable(investor_agent) =>
                      /\ SentOnlyTo(out', investor_agent)
                      /\ out'[1].ev = frame[c]
          /\ pc[c] = "grace" /\ pc'[c] # pc[c] =>
                /\ pc'[c] = (IF Reachable(company_agent) THEN "end_mid"
                             ELSE IF Reachable(investor_agent) THEN "end_fin"
                             ELSE "idle")
                /\ Reachable(company_agent) =>
                      SentOnlyTo(out', company_agent) /\ out'[1].ev.type = "end"
                /\ ~Reachable(company_agent) /\ Reachable(investor_agent) =>
                      SentOnlyTo(out', investor_agent) /\ out'[1].ev.type = "end"
          /\ pc[c] = "end_mid" /\ pc'[c] # pc[c] =>
                /\ pc'[c] = (IF Reachable(investor_agent) THEN "end_fin" ELSE "idle")
                /\ Reachable(investor_agent) =>
                      SentOnlyTo(out', investor_agent) /\ out'[1].ev.type = "end"
          /\ pc[c] \in EndPcs => pc'[c] # "done" ]_vars

\* the company's channel was closed when the ceiling was reached: the send
\* to it raised, and in the same step the investor has been sent the
\* conclusion, with the fallback text
ConclusionDeliveredWitness ==
    /\ company_agent # NoConn /\ sock[company_agent] = "closed"
    /\ Reachable(investor_agent)
    /\ \E c \in Conns : pc[c] = "grace"
    /\ sentCount["conclusion"] = 1
    /\ SentOnlyTo(out, investor_agent)
    /\ out[1].ev.type = "conclusion"
    /\ out[1].ev.text = "simple"
    /\ out[1].ev.status = "MAX_TURNS_REACHED"

(***************************************************************************)
(* C39  session_start precedes the first turn: among the events an agent   *)
(* has handled and those waiting in its channel, in their order, every     *)
(* relayed `message` comes after a `session_start`, also when the          *)
(* company has its first turn ready while start_session, in the handler of *)
(* the connection that registered last, is still between its two sends.    *)
(***************************************************************************)
SessionStartFirst ==
    \A a \in Agents :
        \A i \in 1 .. Len(Received(a)) :
            Received(a)[i] = "message" =>
                \E j \in 1 .. (i - 1) : Received(a)[j] = "session_start"

(***************************************************************************)
(* C40  The echo guard drops only echoes: an agent that handles a          *)
(* `message` event sent by the counterparty (its role is the               *)
(* counterparty's) appends it to its transcript and goes on to answer it,  *)
(* whatever the two display names are, equal names included.               *)
(***************************************************************************)
HandlesCounterparty(a) ==
    /\ handled'[a] # handled[a]
    /\ Head(toAgent[a]).type = "message"
    /\ Head(toAgent[a]).role = AgentRole(3 - a)

OnlyEchoesDropped ==
    [][ \A a \in Agents :
          HandlesCounterparty(a) =>
              /\ agent_history'[a] = Append(agent_history[a], "other")
              /\ agent_pc'[a] = "respond" ]_vars

====
